---- MODULE Spec2Model ----
(***************************************************************************)
(* Model of ct_h2o/ct_h20.py: class Tower, a cooling-tower make-up water   *)
(* calculator.  The state is the Tower instance's attributes; there is one *)
(* action per method and per property read.  The value a call returns (or  *)
(* the exception it raises) is recorded in ret.                            *)
(*                                                                         *)
(* Numbers.  The code computes in float64.  Cooling loads, temperatures    *)
(* and relative humidities are modelled as exact rationals [n, d] in       *)
(* lowest terms.  The results of psychrolib's humidity-ratio and enthalpy  *)
(* functions are modelled as applications [fn, a] of the function to its   *)
(* arguments: two results are equal when function and arguments are.  The  *)
(* enthalpy is strictly increasing in the humidity ratio, so results that  *)
(* differ in that argument differ in the code as well.                     *)
(*                                                                         *)
(* psychrolib.  With numba installed (the module imports it) psychrolib's   *)
(* functions are compiled as ufuncs: they take arrays, apply the scalar    *)
(* function to every entry and broadcast their arguments.                  *)
(*                                                                         *)
(* Arrays.  A numpy array is a sequence.  The one-column table that        *)
(* import_cooling_profile reads has shape (N, 1); it is modelled as the    *)
(* sequence of its N values.                                               *)
(***************************************************************************)
EXTENDS Integers, Sequences, FiniteSets, TLC

VARIABLES
    cycles,            \* self.cycles
    drift,             \* self.drift
    dt,                \* self.dt
    cooling_profile,   \* self.cooling_profile
    ambient_db,        \* self.ambient_db
    ambient_dp,        \* self.ambient_dp
    ambient_rh,        \* self.ambient_rh
    tmy3,              \* self.tmy3
    air_entering_w,    \* self.air_entering_w
    air_entering_h,    \* self.air_entering_h
    air_leaving_h,     \* self.air_leaving_h
    air_entering_wb,   \* self.air_entering_wb
    ret,               \* the last call: its name, arguments and outcome
    last_cooling,      \* history: <<file>> of the latest import_cooling_profile
    last_weather,      \* history: how the latest import_weather_data ended
    n_weather          \* history: number of import_weather_data calls so far

config == <<cycles, drift, dt>>
series == <<cooling_profile, ambient_db, ambient_dp, ambient_rh, tmy3,
            air_entering_w, air_entering_h, air_leaving_h, air_entering_wb>>
history == <<last_cooling, last_weather, n_weather>>
vars == <<config, series, ret, history>>

----------------------------------------------------------------------------
(* Bounds of the model *)

\* Stand-in for the 8760 hours of the year: the length of the arrays that
\* __init__ allocates and of a well-formed input file.
Hours == 2

\* Cap on the number of import_weather_data calls in one behaviour.
MaxWeatherImports == 1

----------------------------------------------------------------------------
(* Exact rational arithmetic *)

RECURSIVE Gcd(_, _)
Gcd(a, b) == IF b = 0 THEN a ELSE Gcd(b, a % b)

Abs(x) == IF x < 0 THEN -x ELSE x

\* The rational n/d (d # 0) in lowest terms with a positive denominator.
Rat(n, d) ==
    LET g == Gcd(Abs(n), Abs(d))
        s == IF d < 0 THEN -1 ELSE 1
    IN  [n |-> (s * n) \div g, d |-> (s * d) \div g]

Int2Rat(k) == [n |-> k, d |-> 1]
RAdd(x, y) ==
    LET g == Gcd(x.d, y.d)
    IN  Rat(x.n * (y.d \div g) + y.n * (x.d \div g), (x.d \div g) * y.d)
RMul(x, y) == Rat(x.n * y.n, x.d * y.d)
RDiv(x, y) == Rat(x.n * y.d, x.d * y.n)
RLess(x, y) == x.n * y.d < y.n * x.d
RLeq(x, y) == x.n * y.d <= y.n * x.d

----------------------------------------------------------------------------
(* numpy *)

\* array * k, array / k, array + k: elementwise on every entry.
NpMulScalar(arr, k) == [i \in 1..Len(arr) |-> RMul(arr[i], k)]
NpDivScalar(arr, k) == [i \in 1..Len(arr) |-> RDiv(arr[i], k)]
NpAddScalar(arr, k) == [i \in 1..Len(arr) |-> RAdd(arr[i], k)]

\* ndarray.sum(): left fold from 0; 0 for an empty array.
RECURSIVE NpSum(_)
NpSum(arr) ==
    IF Len(arr) = 0 THEN Int2Rat(0)
    ELSE RAdd(NpSum(SubSeq(arr, 1, Len(arr) - 1)), arr[Len(arr)])

\* Running maximum of a non-empty array, scanning left to right.
RECURSIVE MaxScan(_)
MaxScan(arr) ==
    IF Len(arr) = 1 THEN arr[1]
    ELSE LET m == MaxScan(SubSeq(arr, 1, Len(arr) - 1))
         IN  IF RLess(m, arr[Len(arr)]) THEN arr[Len(arr)] ELSE m

\* Python's None.
None == <<>>

Ok(v) == [status |-> "ok", value |-> v]
Raise(e) == [status |-> e, value |-> None]

\* Faulty variant of NpMax: the smallest entry.
NpMin(arr) ==
    IF Len(arr) = 0 THEN Raise("ValueError")
    ELSE Ok(CHOOSE v \in {arr[i] : i \in 1..Len(arr)} :
                \A i \in 1..Len(arr) : RLeq(v, arr[i]))

\* ndarray.max(): the largest entry; ValueError on an empty array.
NpMax(arr) ==
    IF Len(arr) = 0 THEN Raise("ValueError") ELSE Ok(MaxScan(arr))

\* Position k holds the first occurrence of the maximum: every earlier
\* entry is smaller, no later one larger.
IsFirstMax(arr, k) ==
    /\ \A j \in 1..(k - 1) : RLess(arr[j], arr[k])
    /\ \A j \in (k + 1)..Len(arr) : RLeq(arr[j], arr[k])

\* Position k holds the last occurrence of the maximum.
IsLastMax(arr, k) ==
    /\ \A j \in 1..(k - 1) : RLeq(arr[j], arr[k])
    /\ \A j \in (k + 1)..Len(arr) : RLess(arr[j], arr[k])

\* Faulty variant of NpArgmax: the position of the last occurrence of the
\* maximum.
NpArgmaxLast(arr) ==
    IF Len(arr) = 0 THEN Raise("ValueError")
    ELSE Ok(CHOOSE k \in 1..Len(arr) : IsLastMax(arr, k))

\* ndarray.argmax(): the position (here 1-based) of the first occurrence of
\* the maximum; ValueError on an empty array.
NpArgmax(arr) ==
    IF Len(arr) = 0 THEN Raise("ValueError")
    ELSE Ok(CHOOSE k \in 1..Len(arr) : IsFirstMax(arr, k))

\* The length of the result of an elementwise operation on two 1-d arrays
\* of lengths m and n (numpy broadcasting), or -1 when the shapes do not
\* broadcast.
BroadcastLen(m, n) ==
    IF m = n THEN m
    ELSE IF m = 1 THEN n
    ELSE IF n = 1 THEN m
    ELSE -1

\* Entry i of an array of length m stretched to the broadcast length.
At(arr, i) == IF Len(arr) = 1 THEN arr[1] ELSE arr[i]

\* np.empty(n): n entries of whatever the allocated memory holds.  The
\* content is fixed once allocated; image selects one of three contents:
\* zeros, positive values, negative values.
NpEmpty(n, image) ==
    [i \in 1..n |->
        CASE image = 0 -> Int2Rat(0)
          [] image = 1 -> Int2Rat(4 * i)
          [] OTHER     -> Int2Rat(0 - 4 * i)]

MemoryImages == {0, 1, 2}

----------------------------------------------------------------------------
(* psychrolib (IP units), applied elementwise to arrays *)

PRESSURE == Rat(146959, 10000)

\* psychrolib.MIN_HUM_RATIO
MIN_HUM_RATIO == Rat(1, 10000000)

IsRat(x) == "n" \in DOMAIN x

\* x < 0 for a float x.  Humidity ratios and enthalpies that psychrolib
\* returns for the model's inputs are positive.
IsNegative(x) == IsRat(x) /\ x.n < 0

\* GetHumRatioFromRelHum(TDryBulb, RelHum, Pressure) for scalars: raises
\* ValueError unless 0 <= RelHum <= 1.
GetHumRatioFromRelHum(TDryBulb, RelHum, Pressure) ==
    IF RLess(RelHum, Int2Rat(0)) \/ RLess(Int2Rat(1), RelHum)
    THEN Raise("ValueError")
    ELSE Ok([fn |-> "GetHumRatioFromRelHum",
             a |-> <<TDryBulb, RelHum, Pressure>>])

\* GetMoistAirEnthalpy(TDryBulb, HumRatio) for scalars: raises ValueError
\* on a negative humidity ratio, bounds it below by MIN_HUM_RATIO, and
\* returns 0.240*TDryBulb + BoundedHumRatio*(1061 + 0.444*TDryBulb).
GetMoistAirEnthalpy(TDryBulb, HumRatio) ==
    IF IsNegative(HumRatio) THEN Raise("ValueError")
    ELSE LET BoundedHumRatio ==
                 IF IsRat(HumRatio) /\ RLess(HumRatio, MIN_HUM_RATIO)
                 THEN MIN_HUM_RATIO ELSE HumRatio
         IN  Ok([fn |-> "GetMoistAirEnthalpy",
                 a |-> <<TDryBulb, BoundedHumRatio>>])

\* GetTWetBulbFromTDewPoint(TDryBulb, TDewPoint, Pressure) for scalars:
\* raises ValueError when the dew point exceeds the dry bulb.  The library
\* solves for the wet bulb by bisection between dew point and dry bulb; the
\* model takes the point one third of the way down from the dry bulb, which
\* like the solution lies between the two and increases with both.
GetTWetBulbFromTDewPoint(TDryBulb, TDewPoint, Pressure) ==
    IF RLess(TDryBulb, TDewPoint) THEN Raise("ValueError")
    ELSE Ok(RDiv(RAdd(RAdd(TDryBulb, TDryBulb), TDewPoint), Int2Rat(3)))

\* The outcome of a function of scalars applied elementwise to arrays that
\* broadcast to length n, given the outcome r[i] for each entry: ValueError
\* when the shapes do not broadcast (n < 0) or when the function raises on
\* some entry.
Elementwise(n, r) ==
    IF n < 0 \/ \E i \in 1..n : r[i].status # "ok"
    THEN Raise("ValueError")
    ELSE Ok([i \in 1..n |-> r[i].value])

----------------------------------------------------------------------------
(* Input files *)

\* Hourly cooling loads [BTU/hr] that a cooling-profile file may hold.
CoolingValues == {0, 8}

\* A cooling-profile file: the data rows under its header, one value each.
\* A well-formed file has Hours rows; shorter files are included.
CoolingFiles == UNION {[1..n -> CoolingValues] : n \in 0..Hours}

\* import_cooling_profile's units argument.
Units == {"btuh", "kw"}

\* A string as the sequence of its characters.
Date1 == <<"1", "9", "9", "9", "/", "0", "7", "/", "0", "1">>
Date2 == <<"2", "0", "0", "4", "/", "0", "8", "/", "1", "5">>

\* The HH:MM label of the hour at position i of a weather file.
HourLabel(i) ==
    <<"0", <<"1", "2", "3", "4", "5", "6", "7", "8", "9">>[i], ":", "0", "0">>

\* The readings a weather row may hold: date, dry bulb {C}, dew point {C},
\* relative humidity {%}.
Readings == {
    [Date |-> Date1, DryBulbC |-> Int2Rat(30), DewPointC |-> Int2Rat(20),
     RelHumPct |-> Int2Rat(50)],
    [Date |-> Date2, DryBulbC |-> Int2Rat(35), DewPointC |-> Int2Rat(25),
     RelHumPct |-> Int2Rat(56)] }

\* A weather file as pd.read_csv returns it: the rows under the 18 skipped
\* lines and the header, indexed by (Date, HH:MM), with the three columns
\* read.  Row i is hour i.
WeatherFiles ==
    UNION {{[i \in 1..n |->
               [Date |-> f[i].Date, HHMM |-> HourLabel(i),
                DryBulbC |-> f[i].DryBulbC, DewPointC |-> f[i].DewPointC,
                RelHumPct |-> f[i].RelHumPct]] : f \in [1..n -> Readings]}
           : n \in 0..Hours}

Column(table, name) == [i \in 1..Len(table) |-> table[i][name]]

----------------------------------------------------------------------------
(* Tower *)

\* Values of dt that a Tower is constructed with (the default is 10); all
\* positive, so that the division by dt*500 is defined.
DtValues == {2, 10}

\* Tower.__init__(cycles=5, drift=0.002, dt): the configuration, and eight
\* arrays of np.empty(8760) whose content is what the memory held.
Init ==
    /\ cycles = 5
    /\ drift = Rat(2, 1000)
    /\ dt \in DtValues
    /\ \E image \in MemoryImages :
        /\ cooling_profile = NpEmpty(Hours, image)
        /\ ambient_db = NpEmpty(Hours, image)
        /\ ambient_dp = NpEmpty(Hours, image)
        /\ ambient_rh = NpEmpty(Hours, image)
        /\ air_entering_w = NpEmpty(Hours, image)
        /\ air_entering_h = NpEmpty(Hours, image)
        /\ air_leaving_h = NpEmpty(Hours, image)
        /\ air_entering_wb = NpEmpty(Hours, image)
    /\ tmy3 = <<>>
    /\ ret = [op |-> "__init__", args |-> <<>>, status |-> "ok", value |-> None]
    /\ last_cooling = <<>>
    /\ last_weather = "none"
    /\ n_weather = 0

Returned(op, args, r) ==
    ret' = [op |-> op, args |-> args, status |-> r.status, value |-> r.value]

\* Variant of ReadCoolingCsv that honours units: kW converted to BTU/hr.
ReadCoolingCsvConverted(file_path, units) ==
    [i \in 1..Len(file_path) |->
        Int2Rat(IF units = "btuh" THEN file_path[i] ELSE 3412 * file_path[i])]

\* np.array(pd.read_csv(file_path, header=0)) in import_cooling_profile,
\* whose units argument is not used.
ReadCoolingCsv(file_path, units) ==
    [i \in 1..Len(file_path) |-> Int2Rat(file_path[i])]

\* Faulty variant of CompressorHeat: the uplift applied twice.
CompressorHeatTwice(arr) ==
    NpDivScalar(NpMulScalar(arr, Int2Rat(25)), Int2Rat(16))

\* arr*5/4  # compressor heat
CompressorHeat(arr) == NpDivScalar(NpMulScalar(arr, Int2Rat(5)), Int2Rat(4))

import_cooling_profile(file_path, units) ==
    /\ cooling_profile' = CompressorHeat(ReadCoolingCsv(file_path, units))
    /\ Returned("import_cooling_profile", <<file_path, units>>, Ok(None))
    /\ last_cooling' = <<file_path>>
    /\ UNCHANGED <<config, ambient_db, ambient_dp, ambient_rh, tmy3,
                   air_entering_w, air_entering_h, air_leaving_h,
                   air_entering_wb, last_weather, n_weather>>

\* Faulty variant of FlowOf: the factor 500 left out.
FlowOfNo500(profile, delta_t) == NpDivScalar(profile, Int2Rat(delta_t))

\* self.cooling_profile / (self.dt * 500)
FlowOf(profile, delta_t) == NpDivScalar(profile, Int2Rat(delta_t * 500))

\* Tower.cooling_water_flow
cooling_water_flow == FlowOf(cooling_profile, dt)

\* Faulty variant of MakeUpOf: the factor 0.08.
MakeUpOfWrongFactor(flow) == NpMulScalar(flow, Rat(8, 100))

\* flow * 0.008
MakeUpOf(flow) == NpMulScalar(flow, Rat(8, 1000))

\* Tower.annual_water_make_up_profile()
annual_water_make_up_profile == MakeUpOf(cooling_water_flow)

\* Tower.total_annual_water_make_up
total_annual_water_make_up == NpSum(cooling_water_flow)

\* Tower.peak_water_make_up
peak_water_make_up == NpMax(cooling_water_flow)

\* column*9/5 + 32
CelsiusToFahrenheit(arr) ==
    NpAddScalar(NpDivScalar(NpMulScalar(arr, Int2Rat(9)), Int2Rat(5)),
                Int2Rat(32))

\* psychrolib.GetHumRatioFromRelHum(TDryBulb, RelHum, Pressure) on arrays
\* and a scalar pressure.
HumRatioArray(TDryBulb, RelHum, Pressure) ==
    LET n == BroadcastLen(Len(TDryBulb), Len(RelHum))
    IN  Elementwise(n, [i \in 1..n |->
            GetHumRatioFromRelHum(At(TDryBulb, i), At(RelHum, i), Pressure)])

\* psychrolib.GetMoistAirEnthalpy(TDryBulb, HumRatio) on arrays.
MoistAirEnthalpyArray(TDryBulb, HumRatio) ==
    LET n == BroadcastLen(Len(TDryBulb), Len(HumRatio))
    IN  Elementwise(n, [i \in 1..n |->
            GetMoistAirEnthalpy(At(TDryBulb, i), At(HumRatio, i))])

\* psychrolib.GetTWetBulbFromTDewPoint(TDryBulb, TDewPoint, Pressure) on
\* arrays and a scalar pressure.
TWetBulbArray(TDryBulb, TDewPoint, Pressure) ==
    LET n == BroadcastLen(Len(TDryBulb), Len(TDewPoint))
    IN  Elementwise(n, [i \in 1..n |->
            GetTWetBulbFromTDewPoint(At(TDryBulb, i), At(TDewPoint, i),
                                     Pressure)])

\* Tower.import_weather_data: the assignments in the order of the code; an
\* exception raised by a psychrolib call leaves the assignments before it
\* done and the ones from it on undone.
import_weather_data(file_path) ==
    LET db == CelsiusToFahrenheit(Column(file_path, "DryBulbC"))
        dp == CelsiusToFahrenheit(Column(file_path, "DewPointC"))
        rh == NpDivScalar(Column(file_path, "RelHumPct"), Int2Rat(100))
        w  == HumRatioArray(db, rh, PRESSURE)
        h  == MoistAirEnthalpyArray(db, air_entering_h)
        wb == TWetBulbArray(db, dp, PRESSURE)
        outcome == IF w.status # "ok" THEN w
                   ELSE IF h.status # "ok" THEN h
                   ELSE IF wb.status # "ok" THEN wb
                   ELSE Ok(None)
    IN  /\ n_weather < MaxWeatherImports
        /\ n_weather' = n_weather + 1
        /\ tmy3' = file_path
        /\ ambient_db' = db
        /\ ambient_dp' = dp
        /\ ambient_rh' = rh
        /\ IF w.status # "ok"
           THEN UNCHANGED <<air_entering_w, air_entering_h, air_entering_wb>>
           ELSE /\ air_entering_w' = w.value
                /\ IF h.status # "ok"
                   THEN UNCHANGED <<air_entering_h, air_entering_wb>>
                   ELSE /\ air_entering_h' = h.value
                        /\ IF wb.status # "ok"
                           THEN UNCHANGED air_entering_wb
                           ELSE air_entering_wb' = wb.value
        /\ Returned("import_weather_data", <<file_path>>, outcome)
        /\ last_weather' = outcome.status
        /\ UNCHANGED <<config, cooling_profile, air_leaving_h, last_cooling>>

\* arr[k] for a 1-based position k: IndexError past the end.
Index(arr, k) == IF k > Len(arr) THEN Raise("IndexError") ELSE Ok(arr[k])

\* Tower.airflow: the design wet bulb and the coincident dry bulb, then
\* psychrolib.GetHumRatioFromTWetBulb called with two of its three
\* arguments, which raises TypeError.
airflow ==
    LET max_wb == NpMax(air_entering_wb)
        inx == NpArgmax(air_entering_wb)
    IN  IF max_wb.status # "ok" THEN max_wb
        ELSE LET coincident_db == Index(ambient_db, inx.value)
             IN  IF coincident_db.status # "ok" THEN coincident_db
                 ELSE Raise("TypeError")

\* Tower.design_wb
design_wb == NpMax(air_entering_wb)

\* f'{date[5:]}-{time}'
DayLabel(date, time) == SubSeq(date, 6, Len(date)) \o <<"-">> \o time

\* Tower.design_day
design_day ==
    LET max_wb_inx == NpArgmax(air_entering_wb)
    IN  IF max_wb_inx.status # "ok" THEN max_wb_inx
        ELSE LET row == Index(tmy3, max_wb_inx.value)
             IN  IF row.status # "ok" THEN row
                 ELSE Ok(DayLabel(row.value.Date, row.value.HHMM))

\* Tower.weather_stats
weather_stats == Ok(None)

\* Reading a property, or calling a method that only computes: the outcome
\* is returned and no attribute is assigned.
Read(op, r) ==
    /\ Returned(op, <<>>, r)
    /\ UNCHANGED <<config, series, history>>

\* Faulty variant of read_cooling_water_flow: the division done in place
\* (self.cooling_profile /= ...).
read_cooling_water_flow_in_place ==
    /\ cooling_profile' = cooling_water_flow
    /\ Returned("cooling_water_flow", <<>>, Ok(cooling_water_flow))
    /\ UNCHANGED <<config, ambient_db, ambient_dp, ambient_rh, tmy3,
                   air_entering_w, air_entering_h, air_leaving_h,
                   air_entering_wb, history>>

read_cooling_water_flow == Read("cooling_water_flow", Ok(cooling_water_flow))

call_annual_water_make_up_profile ==
    Read("annual_water_make_up_profile", Ok(annual_water_make_up_profile))

read_total_annual_water_make_up ==
    Read("total_annual_water_make_up", Ok(total_annual_water_make_up))

read_peak_water_make_up == Read("peak_water_make_up", peak_water_make_up)

read_design_wb == Read("design_wb", design_wb)

read_design_day == Read("design_day", design_day)

read_airflow == Read("airflow", airflow)

read_weather_stats == Read("weather_stats", weather_stats)

\* The cooling side of the Tower: the cooling profile and what is derived
\* from it.
NextCooling ==
    \/ \E file_path \in CoolingFiles, units \in Units :
           import_cooling_profile(file_path, units)
    \/ read_cooling_water_flow
    \/ call_annual_water_make_up_profile
    \/ read_total_annual_water_make_up
    \/ read_peak_water_make_up

\* The weather side of the Tower.
NextWeather ==
    \/ \E file_path \in WeatherFiles : import_weather_data(file_path)
    \/ read_design_wb
    \/ read_design_day
    \/ read_airflow
    \/ read_weather_stats

Next == NextCooling \/ NextWeather

\* Tower(): the construction with the default arguments, as in __main__.
InitDefault == Init /\ dt = 10

\* Every operation of a default Tower, in any order.
Spec == InitDefault /\ [][Next]_vars

\* A Tower on which only the cooling side is used.
SpecCooling == Init /\ [][NextCooling]_vars

\* A Tower on which only the weather side is used.
SpecWeather == Init /\ [][NextWeather]_vars

----------------------------------------------------------------------------
(* Claims *)

\* The file of the latest import_cooling_profile, when there was one.
Imported == last_cooling # <<>>
CoolingFile == last_cooling[1]

IsConstant(file, V) == Len(file) > 0 /\ \A i \in 1..Len(file) : file[i] = V
HasNonZero(file) == \E i \in 1..Len(file) : file[i] # 0

\* C1: after import_cooling_profile of a file whose rows all hold V, with
\* dt positive, cooling_water_flow has one entry per row and every entry
\* equals V*1.25/(dt*500).
C1_ConstantLoadFlow ==
    \A V \in CoolingValues :
        (/\ ret.op = "cooling_water_flow"
         /\ Imported
         /\ IsConstant(CoolingFile, V)
         /\ dt > 0)
        => /\ ret.status = "ok"
           /\ Len(ret.value) = Len(CoolingFile)
           /\ \A i \in 1..Len(ret.value) :
                  ret.value[i] = RDiv(RMul(Int2Rat(V), Rat(125, 100)),
                                      Int2Rat(dt * 500))

\* C1 witness: cooling_water_flow read after the import of a full-length
\* file of a constant non-zero load.
C1_Witness ==
    /\ ret.op = "cooling_water_flow"
    /\ Imported
    /\ Len(CoolingFile) = Hours
    /\ IsConstant(CoolingFile, 8)

\* C2: whatever was imported, annual_water_make_up_profile() has the length
\* of cooling_water_flow and equals it times 0.008 entry by entry.
C2_MakeUpProfile ==
    ret.op = "annual_water_make_up_profile"
    => /\ ret.status = "ok"
       /\ Len(ret.value) = Len(cooling_water_flow)
       /\ \A i \in 1..Len(ret.value) :
              ret.value[i] = RMul(cooling_water_flow[i], Rat(8, 1000))

\* C2 witness: the profile returned after the import of a file with a
\* non-zero load.
C2_Witness ==
    /\ ret.op = "annual_water_make_up_profile"
    /\ Imported
    /\ HasNonZero(CoolingFile)
    /\ Len(ret.value) = Hours

\* C3: on a Tower with an imported cooling profile,
\* total_annual_water_make_up is the sum over all hours of the series that
\* annual_water_make_up_profile() returns.
C3_TotalIsSumOfMakeUp ==
    (ret.op = "total_annual_water_make_up" /\ Imported)
    => ret.value = NpSum(annual_water_make_up_profile)

\* C4: after import_weather_data of a full-year file returns,
\* air_entering_h holds for every hour the enthalpy of that hour's dry bulb
\* and of that hour's humidity ratio in air_entering_w.
C4_EnthalpyFromHumidityRatio ==
    (ret.op = "import_weather_data" /\ ret.status = "ok" /\ Len(tmy3) = Hours)
    => /\ Len(air_entering_h) = Len(ambient_db)
       /\ \A i \in 1..Len(air_entering_h) :
              air_entering_h[i] =
                  GetMoistAirEnthalpy(ambient_db[i], air_entering_w[i]).value

\* C5: import_cooling_profile of a file with fewer rows than the year has
\* hours ends in a "malformed input" error, and the Tower never holds a
\* cooling-load series shorter than the year.
C5_ShortProfileRejected ==
    /\ (ret.op = "import_cooling_profile" /\ Len(ret.args[1]) < Hours)
       => ret.status = "malformed input"
    /\ Len(cooling_profile) >= Hours

\* C6: after import_weather_data has returned, design_wb is the largest
\* entry of the wet-bulb series, and design_day is the label of the index
\* entry of the weather table at the first position that holds it.
C6_DesignCondition ==
    last_weather = "ok"
    => /\ ret.op = "design_wb"
          => /\ ret.status = "ok"
             /\ \E p \in 1..Len(air_entering_wb) :
                    air_entering_wb[p] = ret.value
             /\ \A i \in 1..Len(air_entering_wb) :
                    RLeq(air_entering_wb[i], ret.value)
       /\ ret.op = "design_day"
          => /\ ret.status = "ok"
             /\ \E p \in 1..Len(tmy3) :
                    /\ ret.value = DayLabel(tmy3[p].Date, tmy3[p].HHMM)
                    /\ air_entering_wb[p] = design_wb.value
                    /\ \A i \in 1..(p - 1) :
                           RLess(air_entering_wb[i], air_entering_wb[p])
                    /\ \A q \in 1..Len(tmy3) :
                           ret.value = DayLabel(tmy3[q].Date, tmy3[q].HHMM)
                           => q = p

\* C6 witness: design_day read after a full-length import in which all
\* hours tie for the maximum.
C6_Witness ==
    /\ last_weather = "ok"
    /\ ret.op = "design_day"
    /\ Len(air_entering_wb) = Hours
    /\ \A i \in 1..Hours : air_entering_wb[i] = design_wb.value

C8_UnitsIgnored ==
    ret.op = "import_cooling_profile"
    => \A u \in Units :
           cooling_profile = CompressorHeat(ReadCoolingCsv(ret.args[1], u))

\* C8 witness: an import of non-zero loads with units other than the
\* default.
C8_Witness ==
    /\ ret.op = "import_cooling_profile"
    /\ ret.args[2] = "kw"
    /\ HasNonZero(ret.args[1])

\* C9: once a cooling profile was imported, the cooling-load series is 5/4
\* times the rows of the latest imported file, whatever was stored or
\* imported before, and import_weather_data leaves the series as it is.
C9_LatestImportOnly ==
    /\ [](Imported
          => /\ Len(cooling_profile) = Len(CoolingFile)
             /\ \A i \in 1..Len(CoolingFile) :
                    cooling_profile[i] = Rat(5 * CoolingFile[i], 4))
    /\ [][n_weather' # n_weather => cooling_profile' = cooling_profile]_vars

\* C9 witness: import_weather_data has just run on a Tower that holds an
\* imported profile of non-zero loads.
C9_Witness ==
    /\ ret.op = "import_weather_data"
    /\ Imported
    /\ HasNonZero(CoolingFile)

ReadOps == {"cooling_water_flow", "annual_water_make_up_profile",
            "total_annual_water_make_up", "peak_water_make_up",
            "design_wb", "design_day", "airflow", "weather_stats"}

\* C10: no step changes cycles, drift or dt; a step that is a derived
\* query leaves every stored series unchanged; and a query repeated with
\* no other call in between returns what it returned before.
C10_Frame ==
    [][/\ config' = config
       /\ ret'.op \in ReadOps => series' = series
       /\ (ret.op \in ReadOps /\ ret'.op = ret.op)
          => (ret'.status = ret.status /\ ret'.value = ret.value)]_vars

\* C10 witness: a query has returned on a Tower on which both imports have
\* run.
C10_Witness ==
    /\ ret.op = "design_day"
    /\ ret.status = "ok"
    /\ Imported
    /\ HasNonZero(CoolingFile)

====
